---- MODULE Spec2Model ----
(***************************************************************************)
(* Banker's algorithm resource allocator (src/Banker.py).                  *)
(*                                                                         *)
(* State: the pool (total_resources, available_resources, its lock), the   *)
(* process table (max_resources, allocated_resources, need per process),   *)
(* the request threads (process_thread -> request_resources), the          *)
(* dynamic_resource_changer thread and the race_condition_monitor thread.  *)
(* Python lists are 0-based; the sequences here are 1-based, so resource   *)
(* type i of the source is index i+1 and processes[k] has id k-1.          *)
(***************************************************************************)
EXTENDS Integers, Sequences, FiniteSets, TLC

VARIABLES
    total_resources,      \* Resource.total_resources
    available_resources,  \* Resource.available_resources
    processes,            \* the list of Process objects
    lock,                 \* holder of resources.lock: "free", "changer", "monitor" or a thread
    plock,                \* holder of each Process.lock
    pc,                   \* position of each request thread
    arg,                  \* (process, request) of each request thread
    result,               \* what request_resources returned to each thread
    snap,                 \* the shared state at the moment the lock holder took the lock
    pc_ch,                \* position of dynamic_resource_changer
    delta,                \* additional_resources of the running add_resources call
    idx,                  \* loop index i of the running add_resources call
    pc_mon,               \* position of race_condition_monitor
    first_check,          \* race_condition_monitor's local first_check
    mon_msg,              \* what the running monitor check printed
    warned,               \* whether some monitor check has printed the warning
    nreq,                 \* number of requests started so far
    nadd                  \* number of add_resources calls started so far

vars == <<total_resources, available_resources, processes, lock, plock, pc, arg,
          result, snap, pc_ch, delta, idx, pc_mon, first_check, mon_msg,
          warned, nreq, nadd>>

-----------------------------------------------------------------------------
(* Bounds of the model *)

NThreads == 2
MaxRequests == 2
MaxAdds == 1
MaxProcs == 2
MaxClaim == 1

(* random.randint(0, 2) *)
MaxDelta == 2

Threads == 1..NThreads

-----------------------------------------------------------------------------
(* Vectors *)

RECURSIVE Vectors(_, _)
Vectors(n, S) ==
    IF n = 0 THEN {<<>>}
    ELSE {Append(v, x) : v \in Vectors(n - 1, S), x \in S}

RECURSIVE SumAllocated(_, _, _)
SumAllocated(procs, k, i) ==
    IF k = 0 THEN 0
    ELSE procs[k].allocated_resources[i] + SumAllocated(procs, k - 1, i)

-----------------------------------------------------------------------------
(* Process.__init__ *)

Process(id, max_resources, allocated_resources) ==
    [id |-> id,
     max_resources |-> max_resources,
     allocated_resources |-> allocated_resources,
     need |-> [i \in 1..Len(max_resources) |-> max_resources[i] - allocated_resources[i]]]

(* The main block *)

InitTotal == <<10, 5, 7>>

InitProcesses ==
    << Process(0, <<7, 5, 3>>, <<0, 1, 0>>),
       Process(1, <<3, 2, 2>>, <<2, 0, 0>>),
       Process(2, <<9, 0, 2>>, <<3, 0, 2>>),
       Process(3, <<2, 2, 2>>, <<2, 1, 1>>),
       Process(4, <<4, 3, 3>>, <<0, 0, 2>>) >>

-----------------------------------------------------------------------------
(* is_safe_state *)

(* mutant: the comparison of need and work reversed *)
NeedFitsReversed(process, work) ==
    \A j \in 1..Len(work) : process.need[j] >= work[j]

NeedFits(process, work) ==
    \A j \in 1..Len(work) : process.need[j] <= work[j]

AddAllocated(process, work) ==
    [j \in 1..Len(work) |-> work[j] + process.allocated_resources[j]]

(* one execution of the for loop: scans i, i+1, ... in index order *)
RECURSIVE ScanPass(_, _, _, _, _)
ScanPass(procs, i, work, finish, found) ==
    IF i > Len(procs) THEN [work |-> work, finish |-> finish, found |-> found]
    ELSE IF ~finish[i] /\ NeedFits(procs[i], work)
         THEN ScanPass(procs, i + 1, AddAllocated(procs[i], work),
                       [finish EXCEPT ![i] = TRUE], TRUE)
         ELSE ScanPass(procs, i + 1, work, finish, found)

(* mutant: a single pass, no outer loop *)
SafeLoopSinglePass(procs, work, finish) ==
    ScanPass(procs, 1, work, finish, FALSE).finish

(* the while True loop: passes until one finds nothing *)
RECURSIVE SafeLoop(_, _, _)
SafeLoop(procs, work, finish) ==
    LET r == ScanPass(procs, 1, work, finish, FALSE)
    IN IF ~r.found THEN finish ELSE SafeLoop(procs, r.work, r.finish)

IsSafeState(procs, available) ==
    LET finish == SafeLoop(procs, available, [i \in 1..Len(procs) |-> FALSE])
    IN \A i \in 1..Len(procs) : finish[i]

-----------------------------------------------------------------------------
(* get_safe_sequence *)

NoneSeq == [none |-> TRUE, seq |-> <<>>]

(* mutant: the finish flag is not tested *)
FirstFinishableAgain(procs, work, finish) ==
    LET C == {i \in 1..Len(procs) : NeedFits(procs[i], work)}
    IN IF C = {} THEN 0 ELSE CHOOSE i \in C : \A k \in C : i <= k

FirstFinishable(procs, work, finish) ==
    LET C == {i \in 1..Len(procs) : ~finish[i] /\ NeedFits(procs[i], work)}
    IN IF C = {} THEN 0 ELSE CHOOSE i \in C : \A k \in C : i <= k

RECURSIVE SequenceLoop(_, _, _, _)
SequenceLoop(procs, work, finish, sequence) ==
    IF Len(sequence) >= Len(procs) THEN [none |-> FALSE, seq |-> sequence]
    ELSE LET i == FirstFinishable(procs, work, finish)
         IN IF i = 0 THEN NoneSeq
            ELSE SequenceLoop(procs, AddAllocated(procs[i], work),
                              [finish EXCEPT ![i] = TRUE],
                              Append(sequence, procs[i].id))

GetSafeSequence(procs, available) ==
    SequenceLoop(procs, available, [i \in 1..Len(procs) |-> FALSE], <<>>)

-----------------------------------------------------------------------------
(* request_resources: the pieces of its body *)

(* any(request[i] > vec[i] for i in range(len(request))): the generator is
   evaluated in index order and stops at the first True; reading vec past its
   end raises IndexError *)
Compare(request, vec) ==
    LET Bad == {i \in 1..Len(request) : i > Len(vec) \/ request[i] > vec[i]}
    IN IF Bad = {} THEN "ok"
       ELSE LET m == CHOOSE i \in Bad : \A k \in Bad : i <= k
            IN IF m > Len(vec) THEN "IndexError" ELSE "exceeds"

(* mutant: the availability check made before the need check *)
AvailabilityFirst(request, need, available) ==
    IF Compare(request, need) = "IndexError" THEN "IndexError"
    ELSE IF Compare(request, available) = "exceeds" THEN "Resources not available"
    ELSE IF Compare(request, need) = "exceeds" THEN "Request exceeds maximum claim"
    ELSE "ok"

(* mutant: the availability check left out *)
NoAvailabilityCheck(request, need, available) ==
    IF Compare(request, need) = "IndexError" THEN "IndexError"
    ELSE IF Compare(request, need) = "exceeds" THEN "Request exceeds maximum claim"
    ELSE "ok"

(* the two checks of request_resources, in their order: the need check first,
   the availability check only when it passed *)
ValidationOutcome(request, need, available) ==
    IF Compare(request, need) = "IndexError" THEN "IndexError"
    ELSE IF Compare(request, need) = "exceeds" THEN "Request exceeds maximum claim"
    ELSE IF Compare(request, available) = "exceeds" THEN "Resources not available"
    ELSE "ok"

(* mutant: += in place of -= *)
TakeFromPoolAdds(available, request) ==
    [i \in 1..Len(available) |->
        IF i <= Len(request) THEN available[i] + request[i] ELSE available[i]]

(* for i in range(len(request)): resources.available_resources[i] -= request[i] *)
TakeFromPool(available, request) ==
    [i \in 1..Len(available) |->
        IF i <= Len(request) THEN available[i] - request[i] ELSE available[i]]

(* for i in range(len(request)): resources.available_resources[i] += request[i] *)
ReturnToPool(available, request) ==
    [i \in 1..Len(available) |->
        IF i <= Len(request) THEN available[i] + request[i] ELSE available[i]]

(* mutant: need is not updated *)
AllocateWithoutNeed(process, request) ==
    [process EXCEPT
        !.allocated_resources = [i \in 1..Len(@) |->
            IF i <= Len(request) THEN @[i] + request[i] ELSE @[i]]]

(* process.allocated_resources[i] += request[i]; process.need[i] -= request[i] *)
Allocate(process, request) ==
    [process EXCEPT
        !.allocated_resources = [i \in 1..Len(@) |->
            IF i <= Len(request) THEN @[i] + request[i] ELSE @[i]],
        !.need = [i \in 1..Len(@) |->
            IF i <= Len(request) THEN @[i] - request[i] ELSE @[i]]]

(* mutant: the rollback restores the allocation but not need *)
RollbackAllocatedOnly(process, request) ==
    [process EXCEPT
        !.allocated_resources = [i \in 1..Len(@) |->
            IF i <= Len(request) THEN @[i] - request[i] ELSE @[i]]]

(* process.allocated_resources[i] -= request[i]; process.need[i] += request[i] *)
Rollback(process, request) ==
    [process EXCEPT
        !.allocated_resources = [i \in 1..Len(@) |->
            IF i <= Len(request) THEN @[i] - request[i] ELSE @[i]],
        !.need = [i \in 1..Len(@) |->
            IF i <= Len(request) THEN @[i] + request[i] ELSE @[i]]]

Returned(success, message) == [success |-> success, message |-> message, raised |-> FALSE]
Raised(exception) == [success |-> FALSE, message |-> exception, raised |-> TRUE]
NoResult == [success |-> FALSE, message |-> "", raised |-> FALSE]
NoArg == [proc |-> 0, request |-> <<>>]

Free == <<"free", 0>>
ByThread(t) == <<"thread", t>>
ByChanger == <<"changer", 0>>
ByMonitor == <<"monitor", 0>>

Snapshot ==
    [processes |-> processes, available |-> available_resources, total |-> total_resources]
NoSnap == [processes |-> <<>>, available |-> <<>>, total |-> <<>>]

-----------------------------------------------------------------------------
(* Inputs *)

(* the request vectors threads may submit: the four of the main block, and
   malformed ones (a negative component, a short vector, a long vector) *)
RequestVectors ==
    { <<0, 2, 0>>, <<0, 3, 0>>, <<1, 0, 2>>, <<0, 1, 0>>,
      <<0, -1, 0>>, <<1>>, <<0, 0, 0, 1>> }

WellFormed(request) ==
    /\ Len(request) = Len(InitTotal)
    /\ \A i \in 1..Len(request) : request[i] >= 0

ValidRequests == {r \in RequestVectors : WellFormed(r)}

(* the request vectors of the fair specification: they produce a grant, each
   of the three denials and the exception *)
FairRequests == { <<0, 2, 0>>, <<0, 3, 0>>, <<0, 0, 0, 1>> }

(* the additional_resources vectors the changer may draw, each component in
   0..MaxDelta *)
Deltas == { <<0, 0, 0>>, <<0, 2, 1>>, <<MaxDelta, MaxDelta, MaxDelta>> }

-----------------------------------------------------------------------------
(* Initial state: the main block, Resource.__init__, Process.__init__ *)

ThreadsInit ==
    /\ lock = Free
    /\ plock = [k \in 1..Len(processes) |-> Free]
    /\ pc = [t \in Threads |-> "idle"]
    /\ arg = [t \in Threads |-> NoArg]
    /\ result = [t \in Threads |-> NoResult]
    /\ snap = NoSnap
    /\ pc_ch = "sleep"
    /\ delta = <<>>
    /\ idx = 0
    /\ pc_mon = "sleep"
    /\ first_check = TRUE
    /\ mon_msg = ""
    /\ warned = FALSE
    /\ nreq = 0
    /\ nadd = 0

Init ==
    /\ total_resources = InitTotal
    /\ available_resources = InitTotal
    /\ processes = InitProcesses
    /\ ThreadsInit

-----------------------------------------------------------------------------
(* Request threads: process_thread -> request_resources *)

poolVars == <<total_resources, available_resources, processes>>
changerVars == <<pc_ch, delta, idx, nadd>>
monitorVars == <<pc_mon, first_check, mon_msg, warned>>

(* threading.Thread(target=process_thread, ...).start(), or the input loop
   calling process_thread: the thread runs up to the with statement *)
StartRequest(t) ==
    /\ pc[t] = "idle"
    /\ nreq < MaxRequests
    /\ pc' = [pc EXCEPT ![t] = "acquire"]
    /\ nreq' = nreq + 1
    /\ UNCHANGED <<poolVars, lock, plock, arg, result, snap, changerVars, monitorVars>>

(* mutant: the with statement does not wait for resources.lock *)
RequestAcquireUnlocked(t, Inputs) ==
    /\ pc[t] = "acquire"
    /\ \E p \in 1..Len(processes), r \in Inputs :
          arg' = [arg EXCEPT ![t] = [proc |-> p, request |-> r]]
    /\ lock' = ByThread(t)
    /\ snap' = Snapshot
    /\ pc' = [pc EXCEPT ![t] = "validate"]
    /\ UNCHANGED <<poolVars, plock, result, changerVars, monitorVars, nreq>>

(* with process.lock and resources.lock: the expression evaluates to
   resources.lock, the only lock that is acquired. The thread's process and
   request are fixed when it is created and first read under the lock, so
   they are drawn here. *)
RequestAcquire(t, Inputs) ==
    /\ pc[t] = "acquire"
    /\ lock = Free
    /\ \E p \in 1..Len(processes), r \in Inputs :
          arg' = [arg EXCEPT ![t] = [proc |-> p, request |-> r]]
    /\ lock' = ByThread(t)
    /\ snap' = Snapshot
    /\ pc' = [pc EXCEPT ![t] = "validate"]
    /\ UNCHANGED <<poolVars, plock, result, changerVars, monitorVars, nreq>>

(* the two checks and the temporary allocation *)
RequestValidate(t) ==
    /\ pc[t] = "validate"
    /\ LET p == arg[t].proc
           request == arg[t].request
           v == ValidationOutcome(request, processes[p].need, available_resources)
       IN IF v = "IndexError"
          THEN /\ result' = [result EXCEPT ![t] = Raised(v)]
               /\ pc' = [pc EXCEPT ![t] = "release"]
               /\ UNCHANGED poolVars
          ELSE IF v # "ok"
          THEN /\ result' = [result EXCEPT ![t] = Returned(FALSE, v)]
               /\ pc' = [pc EXCEPT ![t] = "release"]
               /\ UNCHANGED poolVars
          ELSE /\ available_resources' = TakeFromPool(available_resources, request)
               /\ processes' = [processes EXCEPT ![p] = Allocate(@, request)]
               /\ pc' = [pc EXCEPT ![t] = "check"]
               /\ UNCHANGED <<total_resources, result>>
    /\ UNCHANGED <<lock, plock, arg, snap, changerVars, monitorVars, nreq>>

(* mutant: the request is granted without the safety check *)
GrantUnchecked(t) ==
    /\ pc[t] = "check"
    /\ result' = [result EXCEPT ![t] = Returned(TRUE, "Request granted")]
    /\ pc' = [pc EXCEPT ![t] = "release"]
    /\ UNCHANGED <<poolVars, lock, plock, arg, snap, changerVars, monitorVars, nreq>>

(* if is_safe_state(...): granted, else rollback *)
RequestCheck(t) ==
    /\ pc[t] = "check"
    /\ LET p == arg[t].proc
           request == arg[t].request
       IN IF IsSafeState(processes, available_resources)
          THEN /\ result' = [result EXCEPT ![t] = Returned(TRUE, "Request granted")]
               /\ UNCHANGED poolVars
          ELSE /\ available_resources' = ReturnToPool(available_resources, request)
               /\ processes' = [processes EXCEPT ![p] = Rollback(@, request)]
               /\ result' = [result EXCEPT ![t] = Returned(FALSE, "Unsafe state")]
               /\ UNCHANGED total_resources
    /\ pc' = [pc EXCEPT ![t] = "release"]
    /\ UNCHANGED <<lock, plock, arg, snap, changerVars, monitorVars, nreq>>

(* mutant: an exception leaves the function without releasing the lock *)
RequestReleaseOnReturnOnly(t) ==
    /\ pc[t] = "release"
    /\ IF result[t].raised
       THEN UNCHANGED <<lock, snap>>
       ELSE lock' = Free /\ snap' = NoSnap
    /\ arg' = [arg EXCEPT ![t] = NoArg]
    /\ pc' = [pc EXCEPT ![t] = "returned"]
    /\ UNCHANGED <<poolVars, plock, result, changerVars, monitorVars, nreq>>

(* leaving the with block: the return value (or the exception) is set, the
   lock is released and the call's frame is gone *)
RequestRelease(t) ==
    /\ pc[t] = "release"
    /\ lock' = Free
    /\ snap' = NoSnap
    /\ arg' = [arg EXCEPT ![t] = NoArg]
    /\ pc' = [pc EXCEPT ![t] = "returned"]
    /\ UNCHANGED <<poolVars, plock, result, changerVars, monitorVars, nreq>>

(* process_thread after request_resources returned: it prints (on a grant
   the value of get_safe_sequence, called without any lock) and ends; an
   exception ends the thread at once *)
ProcessThreadReport(t) ==
    /\ pc[t] = "returned"
    /\ pc' = [pc EXCEPT ![t] = "idle"]
    /\ result' = [result EXCEPT ![t] = NoResult]
    /\ UNCHANGED <<poolVars, lock, plock, arg, snap, changerVars, monitorVars, nreq>>

-----------------------------------------------------------------------------
(* dynamic_resource_changer -> DynamicResource.add_resources *)

requestVars == <<pc, arg, result, nreq>>

(* mutant: add_resources does not wait for the lock *)
AddAcquireUnlocked(Inputs) ==
    /\ pc_ch = "sleep"
    /\ nadd < MaxAdds
    /\ \E d \in Inputs : delta' = d
    /\ lock' = ByChanger
    /\ snap' = Snapshot
    /\ idx' = 1
    /\ pc_ch' = "add_total"
    /\ nadd' = nadd + 1
    /\ UNCHANGED <<poolVars, plock, requestVars, monitorVars>>

(* additional_resources = [random.randint(0, 2) ...]; with self.lock *)
AddAcquire(Inputs) ==
    /\ pc_ch = "sleep"
    /\ nadd < MaxAdds
    /\ lock = Free
    /\ \E d \in Inputs : delta' = d
    /\ lock' = ByChanger
    /\ snap' = Snapshot
    /\ idx' = 1
    /\ pc_ch' = "add_total"
    /\ nadd' = nadd + 1
    /\ UNCHANGED <<poolVars, plock, requestVars, monitorVars>>

(* mutant: total_resources is not updated *)
AddTotalSkipped ==
    /\ pc_ch = "add_total"
    /\ pc_ch' = "add_available"
    /\ UNCHANGED <<poolVars, lock, plock, snap, delta, idx, nadd, requestVars, monitorVars>>

(* self.total_resources[i] += additional_resources[i] *)
AddTotal ==
    /\ pc_ch = "add_total"
    /\ total_resources' = [total_resources EXCEPT ![idx] = @ + delta[idx]]
    /\ pc_ch' = "add_available"
    /\ UNCHANGED <<available_resources, processes, lock, plock, snap, delta, idx, nadd,
                   requestVars, monitorVars>>

(* self.available_resources[i] += additional_resources[i] *)
AddAvailable ==
    /\ pc_ch = "add_available"
    /\ available_resources' = [available_resources EXCEPT ![idx] = @ + delta[idx]]
    /\ IF idx < Len(total_resources)
       THEN idx' = idx + 1 /\ pc_ch' = "add_total"
       ELSE idx' = idx /\ pc_ch' = "release"
    /\ UNCHANGED <<total_resources, processes, lock, plock, snap, delta, nadd,
                   requestVars, monitorVars>>

AddRelease ==
    /\ pc_ch = "release"
    /\ lock' = Free
    /\ snap' = NoSnap
    /\ delta' = <<>>
    /\ idx' = 0
    /\ pc_ch' = "sleep"
    /\ UNCHANGED <<poolVars, plock, nadd, requestVars, monitorVars>>

-----------------------------------------------------------------------------
(* race_condition_monitor *)

MonitorAcquire ==
    /\ pc_mon = "sleep"
    /\ lock = Free
    /\ lock' = ByMonitor
    /\ pc_mon' = "check"
    /\ UNCHANGED <<poolVars, plock, snap, first_check, mon_msg, warned, requestVars, changerVars>>

AllocatedExceedsTotal ==
    \E i \in 1..Len(total_resources) :
        SumAllocated(processes, Len(processes), i) > total_resources[i]

(* the check and its print, inside the with block *)
MonitorCheck ==
    /\ pc_mon = "check"
    /\ IF AllocatedExceedsTotal
       THEN /\ mon_msg' = "Warning: Race condition detected!"
            /\ warned' = TRUE
            /\ UNCHANGED first_check
       ELSE IF first_check
       THEN mon_msg' = "There isn't race condition anymore." /\ first_check' = FALSE
                                                              /\ UNCHANGED warned
       ELSE mon_msg' = "" /\ UNCHANGED <<first_check, warned>>
    /\ pc_mon' = "release"
    /\ UNCHANGED <<poolVars, lock, plock, snap, requestVars, changerVars>>

(* leaving the with block, back to time.sleep(1) *)
MonitorRelease ==
    /\ pc_mon = "release"
    /\ lock' = Free
    /\ mon_msg' = ""
    /\ pc_mon' = "sleep"
    /\ UNCHANGED <<poolVars, plock, snap, first_check, warned, requestVars, changerVars>>

-----------------------------------------------------------------------------
(* Specifications *)

Background ==
    \/ AddAcquire(Deltas) \/ AddTotal \/ AddAvailable \/ AddRelease
    \/ MonitorAcquire \/ MonitorCheck \/ MonitorRelease

RequestSteps(t) ==
    \/ StartRequest(t) \/ RequestValidate(t) \/ RequestCheck(t)
    \/ RequestRelease(t) \/ ProcessThreadReport(t)

(* any request vector, malformed ones included *)
Next ==
    \/ \E t \in Threads : RequestAcquire(t, RequestVectors) \/ RequestSteps(t)
    \/ Background

Spec == Init /\ [][Next]_vars

(* only non-negative request vectors of length R *)
NextValid ==
    \/ \E t \in Threads : RequestAcquire(t, ValidRequests) \/ RequestSteps(t)
    \/ Background

SpecValid == Init /\ [][NextValid]_vars

(* fair scheduling: a thread that can take a step eventually takes it, and a
   thread blocked on resources.lock gets it when it is released again and
   again (the monitor sleeps a second between two checks) *)
NextFair ==
    \/ \E t \in Threads : RequestAcquire(t, FairRequests) \/ RequestSteps(t)
    \/ Background

Fairness ==
    /\ \A t \in Threads :
          /\ SF_vars(RequestAcquire(t, FairRequests))
          /\ WF_vars(RequestValidate(t))
          /\ WF_vars(RequestCheck(t))
          /\ WF_vars(RequestRelease(t))
          /\ WF_vars(ProcessThreadReport(t))
    /\ WF_vars(AddTotal) /\ WF_vars(AddAvailable) /\ WF_vars(AddRelease)
    /\ WF_vars(MonitorCheck) /\ WF_vars(MonitorRelease)

SpecFair == Init /\ [][NextFair]_vars /\ Fairness

(* is_safe_state on its own: the inputs are every list of at most MaxProcs
   processes with 0 <= allocated <= max <= MaxClaim per resource type and every
   available vector with components in 0..MaxClaim; add_resources is applied
   to each *)
ClaimVariants ==
    {v \in Vectors(Len(InitTotal), 0..MaxClaim) \X Vectors(Len(InitTotal), 0..MaxClaim) :
        \A i \in 1..Len(InitTotal) : v[2][i] <= v[1][i]}

RECURSIVE ProcessLists(_)
ProcessLists(n) ==
    IF n = 0 THEN {<<>>}
    ELSE {Append(l, Process(n - 1, v[1], v[2])) : l \in ProcessLists(n - 1), v \in ClaimVariants}

InitGrowth ==
    /\ processes \in UNION {ProcessLists(n) : n \in 0..MaxProcs}
    /\ available_resources \in Vectors(Len(InitTotal), 0..MaxClaim)
    /\ total_resources = [i \in 1..Len(InitTotal) |->
          available_resources[i] + SumAllocated(processes, Len(processes), i)]
    /\ ThreadsInit

NextGrowth ==
    \/ AddAcquire(Vectors(Len(InitTotal), 0..MaxDelta))
    \/ AddTotal \/ AddAvailable \/ AddRelease

SpecGrowth == InitGrowth /\ [][NextGrowth]_vars

-----------------------------------------------------------------------------
(* Properties *)

InCritical(t) == pc[t] \in {"validate", "check", "release"}
NoRequestInCritical == \A t \in Threads : ~InCritical(t)

VecAdd(a, b) == [i \in 1..Len(a) |-> a[i] + b[i]]
VecSub(a, b) == [i \in 1..Len(a) |-> a[i] - b[i]]
VecLeq(a, b) == \A i \in 1..Len(a) : a[i] <= b[i]

(* the process and the request of thread t, and the process as it was when
   the thread took the lock *)
Target(t) == arg[t].proc
Request(t) == arg[t].request
Before(t) == snap.processes[arg[t].proc]

(* C1. Safety preservation: under non-negative length-R requests and capacity
   additions, every state in which no request is inside its critical section
   is safe, in particular every such state after a grant. *)
C1_SafetyPreservation ==
    NoRequestInCritical => IsSafeState(processes, available_resources)

C1_Witness ==
    /\ NoRequestInCritical
    /\ \E t \in Threads :
          /\ pc[t] = "returned"
          /\ result[t].success
    /\ processes # InitProcesses
    /\ nadd > 0

(* C2. Atomicity of denial: when request_resources is about to return
   granted=False (any of the three reasons), processes, available_resources
   and total_resources equal their values at the moment the call took the
   pool lock. *)
C2_DenialAtomic ==
    \A t \in Threads :
        (pc[t] = "release" /\ ~result[t].raised /\ ~result[t].success)
            => Snapshot = snap

C2_Witness ==
    \E t \in Threads :
        /\ pc[t] = "release"
        /\ result[t] = Returned(FALSE, "Unsafe state")
        /\ \E i \in 1..Len(Request(t)) : Request(t)[i] # 0

(* C3. Conservation: whenever nobody holds the pool lock (no request and no
   capacity change is under way), allocated-sum + available = total for every
   resource type. *)
C3_Conservation ==
    lock = Free =>
        \A i \in 1..Len(total_resources) :
            SumAllocated(processes, Len(processes), i) + available_resources[i]
                = total_resources[i]

(* C4. Need derivation: outside a request's critical section,
   need[i] = max_resources[i] - allocated_resources[i] for every process. *)
C4_NeedDerivation ==
    NoRequestInCritical =>
        \A k \in 1..Len(processes) :
            \A i \in 1..Len(processes[k].max_resources) :
                processes[k].need[i] =
                    processes[k].max_resources[i] - processes[k].allocated_resources[i]

C4_Witness ==
    /\ NoRequestInCritical
    /\ nadd > 0
    /\ processes # InitProcesses
    /\ \E t \in Threads : pc[t] = "returned" /\ result[t] = Returned(FALSE, "Unsafe state")

(* C5. A request above the process's need in some resource type is denied
   with "Request exceeds maximum claim" whatever the availability, and it
   changes nothing. *)
ExceedsNeed(t) ==
    \E i \in 1..Len(Before(t).need) :
        i <= Len(Request(t)) /\ Request(t)[i] > Before(t).need[i]

ExceedsAvailable(t) ==
    \E i \in 1..Len(snap.available) :
        i <= Len(Request(t)) /\ Request(t)[i] > snap.available[i]

C5_ClaimViolationDenied ==
    \A t \in Threads :
        (pc[t] = "release" /\ ExceedsNeed(t)) =>
            /\ result[t] = Returned(FALSE, "Request exceeds maximum claim")
            /\ Snapshot = snap

C5_Witness ==
    \E t \in Threads :
        /\ pc[t] = "release"
        /\ ExceedsNeed(t)
        /\ ExceedsAvailable(t)

(* C6. Validation order: a request of at most R components that is within the
   process's need but above the availability in some resource type never
   reaches the speculative apply (the thread is never at the safety check),
   and is denied with "Resources not available", nothing changed. *)
C6_AvailabilityDenied ==
    \A t \in Threads :
        (/\ pc[t] \in {"check", "release"}
         /\ Len(Request(t)) <= Len(snap.available)
         /\ ~ExceedsNeed(t)
         /\ ExceedsAvailable(t)) =>
            /\ pc[t] = "release"
            /\ result[t] = Returned(FALSE, "Resources not available")
            /\ Snapshot = snap

C6_Witness ==
    \E t \in Threads :
        /\ pc[t] = "release"
        /\ ~ExceedsNeed(t)
        /\ ExceedsAvailable(t)
        /\ result[t].message = "Resources not available"

(* C7. Grant path: a non-negative length-R request within need and
   availability whose grant leaves a safe state returns granted=True with
   available' = available - request, the requester's allocated' = allocated +
   request and need' = need - request; total_resources, max_resources and
   every other process are unchanged. *)
Moved(t) ==
    [snap.processes EXCEPT
        ![Target(t)].allocated_resources = VecAdd(@, Request(t)),
        ![Target(t)].need = VecSub(@, Request(t))]

C7_GrantPath ==
    \A t \in Threads :
        (/\ pc[t] = "release"
         /\ WellFormed(Request(t))
         /\ VecLeq(Request(t), Before(t).need)
         /\ VecLeq(Request(t), snap.available)
         /\ IsSafeState(Moved(t), VecSub(snap.available, Request(t)))) =>
            /\ result[t] = Returned(TRUE, "Request granted")
            /\ available_resources = VecSub(snap.available, Request(t))
            /\ total_resources = snap.total
            /\ processes = Moved(t)

C7_Witness ==
    \E t \in Threads :
        /\ pc[t] = "release"
        /\ result[t].success
        /\ WellFormed(Request(t))
        /\ \E i \in 1..Len(Request(t)) : Request(t)[i] > 0
        /\ snap.processes # InitProcesses

(* C8. add_resources(d) is atomic with respect to requests and the monitor
   (while it runs no request is in its critical section and no monitor check
   is running), and when it is done total = total + d, available = available +
   d and the processes are unchanged. *)
C8_AddAtomic ==
    pc_ch # "sleep" =>
        /\ NoRequestInCritical
        /\ pc_mon = "sleep"
        /\ processes = snap.processes
        /\ pc_ch = "release" =>
              /\ total_resources = VecAdd(snap.total, delta)
              /\ available_resources = VecAdd(snap.available, delta)

C8_Witness ==
    /\ pc_ch = "release"
    /\ \E i \in 1..Len(delta) : delta[i] > 0
    /\ \E t \in Threads : pc[t] = "acquire"
    /\ processes # InitProcesses

(* C9. Growth monotonicity: if is_safe_state holds for the processes with the
   available vector add_resources started from, it holds with every vector
   add_resources passes through and ends with. *)
C9_GrowthMonotone ==
    (pc_ch # "sleep" /\ IsSafeState(snap.processes, snap.available))
        => IsSafeState(processes, available_resources)

C9_Witness ==
    /\ pc_ch = "release"
    /\ Len(processes) >= 2
    /\ \E i \in 1..Len(delta) : delta[i] > 0
    /\ \E k \in 1..Len(processes) : ~NeedFits(processes[k], snap.available)
    /\ IsSafeState(snap.processes, snap.available)

(* C10. Malformed input (a negative component, or a length other than R) is
   rejected and changes nothing. *)
C10_MalformedRejected ==
    \A t \in Threads :
        (pc[t] = "release" /\ ~WellFormed(Request(t))) =>
            /\ ~result[t].success
            /\ Snapshot = snap

(* C11. Claimant bounds: outside a request's critical section,
   0 <= allocated_resources[i] <= max_resources[i] for every process, whatever
   integer request vectors were submitted. *)
C11_ClaimantBounds ==
    NoRequestInCritical =>
        \A k \in 1..Len(processes) :
            \A i \in 1..Len(processes[k].max_resources) :
                /\ 0 <= processes[k].allocated_resources[i]
                /\ processes[k].allocated_resources[i] <= processes[k].max_resources[i]

(* C12. Pool bounds: outside a request's critical section,
   0 <= available_resources[i] <= total_resources[i] for every resource type,
   under non-negative length-R requests and capacity additions. *)
C12_PoolBounds ==
    NoRequestInCritical =>
        \A i \in 1..Len(total_resources) :
            /\ 0 <= available_resources[i]
            /\ available_resources[i] <= total_resources[i]

C12_Witness ==
    /\ NoRequestInCritical
    /\ \E i \in 1..Len(total_resources) : available_resources[i] = 0
    /\ \E i \in 1..Len(total_resources) : total_resources[i] > InitTotal[i]

(* C13. Serialization: at most one thread at a time is inside the critical
   section of request_resources, of add_resources or of a monitor check. *)
InCriticalCount ==
    Cardinality({t \in Threads : InCritical(t)})
        + (IF pc_ch # "sleep" THEN 1 ELSE 0)
        + (IF pc_mon # "sleep" THEN 1 ELSE 0)

C13_Serialized == InCriticalCount <= 1

C13_Witness ==
    \E t \in Threads :
        /\ pc[t] = "check"
        /\ \E u \in Threads \ {t} : pc[u] = "acquire"
        /\ nadd > 0

(* C14. No monitor check finds the allocated-sum above total_resources: the
   "Race condition detected" warning is never printed, under non-negative
   length-R requests and capacity additions. *)
C14_NoViolationReported ==
    mon_msg # "Warning: Race condition detected!"

(* C17. Two-lock discipline: a thread inside the critical section of
   request_resources for process p holds both resources.lock and p.lock. *)
C17_BothLocksHeld ==
    \A t \in Threads :
        InCritical(t) =>
            /\ lock = ByThread(t)
            /\ plock[Target(t)] = ByThread(t)

(* C20. Whenever a thread whose request was granted is about to call
   get_safe_sequence (request_resources has returned, no lock is held by it),
   the call does not return None. *)
C20_SequenceAfterGrant ==
    \A t \in Threads :
        (pc[t] = "returned" /\ result[t].success) =>
            ~GetSafeSequence(processes, available_resources).none

(* C15. is_safe_state returns true exactly when some ordering of all the
   processes exists in which each process's need is at most available plus the
   allocations of the processes before it. *)
RECURSIVE Completable(_, _, _)
Completable(procs, S, work) ==
    \/ S = {}
    \/ \E k \in S :
          /\ VecLeq(procs[k].need, work)
          /\ Completable(procs, S \ {k}, VecAdd(work, procs[k].allocated_resources))

C15_SafeIffOrdering ==
    IsSafeState(processes, available_resources)
        <=> Completable(processes, 1..Len(processes), available_resources)

C15_Witness ==
    /\ Len(processes) = 2
    /\ ~VecLeq(processes[1].need, available_resources)
    /\ Completable(processes, 1..Len(processes), available_resources)
    /\ pc_ch = "sleep"

(* C16. get_safe_sequence returns None exactly when is_safe_state is false;
   otherwise it returns every process id exactly once, each process's need
   being at most available plus the allocations of the processes before it;
   with no process it returns the empty sequence. *)
IndexOf(procs, id) == CHOOSE k \in 1..Len(procs) : procs[k].id = id

RECURSIVE WorkAfter(_, _, _, _)
WorkAfter(procs, available, seq, n) ==
    IF n = 0 THEN available
    ELSE VecAdd(WorkAfter(procs, available, seq, n - 1),
                procs[IndexOf(procs, seq[n])].allocated_resources)

ValidOrder(procs, available, seq) ==
    /\ Len(seq) = Len(procs)
    /\ \A k \in 1..Len(procs) :
          Cardinality({n \in 1..Len(seq) : seq[n] = procs[k].id}) = 1
    /\ \A n \in 1..Len(seq) :
          VecLeq(procs[IndexOf(procs, seq[n])].need, WorkAfter(procs, available, seq, n - 1))

C19_RecoveryAfterViolation ==
    mon_msg = "There isn't race condition anymore." =>
        /\ ~AllocatedExceedsTotal
        /\ warned

(* C18. Under fair scheduling every request_resources call that has been
   started eventually returns with its lock released, whatever the other
   request threads, the changer and the monitor do; a denied or failed request
   does not block later ones. *)
C18_RequestsReturn ==
    \A t \in Threads :
        (pc[t] = "acquire") ~> (pc[t] = "returned" /\ lock # ByThread(t))

C18_Witness ==
    \E t \in Threads :
        /\ pc[t] = "acquire"
        /\ lock # Free
        /\ \E u \in Threads \ {t} : pc[u] = "returned" /\ ~result[u].success

====
